---- MODULE Spec2Model ----
(***************************************************************************)
(* Model of the upload-analysis repository: the filesystem-rooted job      *)
(* coordinators (worker_stub.worker_loop driving uni.run_uvi, and          *)
(* data.worker_loop driving data.process_csv_file), the slide stub         *)
(* coordinator and the HTTP status endpoint of excelppt, and the column    *)
(* Type Classifier (ExcelToJSONAnalyzer.separate_data_types).              *)
(***************************************************************************)
EXTENDS Integers, Sequences, FiniteSets, TLC

VARIABLES
    kind,     \* which coordinator program is deployed: "uvi" | "analyzer" | "stub"
    upload,   \* uploads/<job>/ : what the job's upload directory holds
    status,   \* outputs/<job>/status.txt : "none" (absent) | "processing" | "completed" | "failed"
    files,    \* outputs/<job>/ : the set of artifact files that exist
    pc,       \* per coordinator instance: position in worker_loop
    cur,      \* per coordinator instance: job_id of the loop body
    todo,     \* per coordinator instance: job directories the sweep has not yet reached
    res,      \* per coordinator instance: what process_csv_file returned for cur
    last,     \* per coordinator instance: how the loop body ended for cur
    df,       \* the dataset handed to the Type Classifier
    out,      \* the three sequences the Type Classifier returned
    analysis, \* ExcelToJSONAnalyzer.analysis_results
    artifact, \* the analysis artifact and its serialized form
    feat,     \* the dataset handed to the Feature Significance Scorer
    top       \* what get_top_features returned

vars == <<kind, upload, status, files, pc, cur, todo, res, last, df, out,
         analysis, artifact, feat, top>>

----------------------------------------------------------------------------
(* Bounds *)

Jobs == {"j1", "j2"}
Workers1 == {"w1"}
Workers2 == {"w1", "w2"}
MaxCols == 3
MaxRows == 2

----------------------------------------------------------------------------
(* Upload directories *)

Kinds == {"uvi", "analyzer", "stub"}
Exts == {"csv", "xlsx", "xls"}
Contents == {"good", "corrupt", "raises", "unserial"}
\* good     : reads and analyses without error
\* corrupt  : pandas cannot read it (read_file returns False)
\* raises   : reads, but the analysis raises inside process_file_for_worker
\* unserial : reads and analyses, but json.dump of the report raises

NoDir == [ext |-> "nodir", content |-> "-"]
EmptyDir == [ext |-> "none", content |-> "-"]
OtherFile == [ext |-> "other", content |-> "-"]
Missing == [ext |-> "missing", content |-> "-"]
InputFiles == [ext : Exts, content : Contents]
Uploads == {NoDir, EmptyDir, OtherFile} \cup InputFiles

NoJob == "nojob"

----------------------------------------------------------------------------
(* Pure helpers of the coordinators *)

Expected(k) ==
    CASE k = "uvi" -> {"description.json", "insights.json"}
      [] k = "analyzer" -> {"report.json"}
      [] OTHER -> {"presentation.pptx"}

\* variant: the skip test insists on a "completed" marker
AlreadyProcessedCompletedOnly(k, st, fl) ==
    CASE k = "uvi" ->
            "description.json" \in fl /\ "insights.json" \in fl /\ st = "completed"
      [] k = "analyzer" -> "report.json" \in fl /\ st = "completed"
      [] OTHER -> "presentation.pptx" \in fl

\* variant: the skip test looks at the marker alone
AlreadyProcessedMarkerOnly(k, st, fl) ==
    CASE k = "uvi" -> st # "none"
      [] k = "analyzer" -> st # "none"
      [] OTHER -> "presentation.pptx" \in fl

AlreadyProcessed(k, st, fl) ==
    CASE k = "uvi" ->
            "description.json" \in fl /\ "insights.json" \in fl /\ st # "none"
      [] k = "analyzer" -> "report.json" \in fl /\ st # "none"
      [] OTHER -> "presentation.pptx" \in fl

\* variant: any file in the job directory counts as an input
FindFilesAnyFile(k, up) ==
    CASE k = "stub" -> up.ext \in Exts \cup {"other"}
      [] OTHER -> up.ext \in Exts \cup {"other"}

FindFiles(k, up) ==
    CASE k = "stub" -> up.ext \in Exts \cup {"other"}
      [] OTHER -> up.ext \in Exts

ReadPath(k, up) ==
    IF k = "uvi" THEN (IF up.ext = "csv" THEN up ELSE Missing) ELSE up

read_file(f) == f.ext \in Exts /\ f.content # "corrupt"

process_csv_file(f) ==
    IF ~read_file(f) THEN "readerr"
    ELSE IF f.content = "raises" THEN "fail"
    ELSE "report"

Success(r) == r # "fail"

JobStatus(j) == IF "presentation.pptx" \in files[j] THEN "ready" ELSE "pending"

----------------------------------------------------------------------------
(* Initial states *)

NoAnalysis ==
    [done |-> FALSE, total_rows |-> 0, total_columns |-> 0, total_missing |-> 0,
     basic_info |-> [file_name |-> "input", columns |-> <<>>],
     data_types |-> [numerical_columns |-> <<>>, categorical_columns |-> <<>>,
                     datetime_columns |-> <<>>],
     completeness |-> [num |-> 0, den |-> 1]]

NoArtifact == [done |-> FALSE]

NoFeat == [cols |-> <<>>, pair |-> <<>>]

NoTop == [stage |-> "none"]

InitData ==
    /\ df = [nrows |-> 0, cols |-> <<>>]
    /\ out = [numerical |-> <<>>, categorical |-> <<>>, datetime |-> <<>>, done |-> FALSE]
    /\ analysis = NoAnalysis
    /\ artifact = NoArtifact
    /\ feat = NoFeat
    /\ top = NoTop

InitCoord(W) ==
    /\ kind \in Kinds
    /\ upload = [j \in Jobs |-> NoDir]
    /\ status = [j \in Jobs |-> "none"]
    /\ files = [j \in Jobs |-> {}]
    /\ pc = [w \in Workers2 |-> IF w \in W THEN "boot" ELSE "off"]
    /\ cur = [w \in Workers2 |-> NoJob]
    /\ todo = [w \in Workers2 |-> {}]
    /\ res = [w \in Workers2 |-> "none"]
    /\ last = [w \in Workers2 |-> "none"]

Init == InitCoord(Workers1) /\ InitData

InitMulti == InitCoord(Workers2) /\ InitData

----------------------------------------------------------------------------
(* HTTP layer: upload_file creates the job directory, then writes input.<ext> *)

MkJobDir(j) ==
    /\ upload[j] = NoDir
    /\ upload' = [upload EXCEPT ![j] = EmptyDir]
    /\ UNCHANGED <<kind, status, files, pc, cur, todo, res, last, df, out,
                   analysis, artifact, feat, top>>

WriteInput(j) ==
    /\ upload[j] = EmptyDir
    /\ \E f \in InputFiles \cup {OtherFile} : upload' = [upload EXCEPT ![j] = f]
    /\ UNCHANGED <<kind, status, files, pc, cur, todo, res, last, df, out,
                   analysis, artifact, feat, top>>

----------------------------------------------------------------------------
(* Coordinator loop *)

Busy == {"mark", "run", "save", "insights", "describe", "final", "except", "ppt"}

Boot(w) ==
    /\ pc[w] = "boot"
    /\ pc' = [pc EXCEPT ![w] = "loop"]
    /\ UNCHANGED <<kind, upload, status, files, cur, todo, res, last, df, out,
                   analysis, artifact, feat, top>>

StartSweep(w) ==
    /\ pc[w] = "loop"
    /\ pc' = [pc EXCEPT ![w] = "iter"]
    /\ todo' = [todo EXCEPT ![w] = {j \in Jobs : upload[j] # NoDir}]
    /\ cur' = [cur EXCEPT ![w] = NoJob]
    /\ res' = [res EXCEPT ![w] = "none"]
    /\ last' = [last EXCEPT ![w] = "none"]
    /\ UNCHANGED <<kind, upload, status, files, df, out,
                   analysis, artifact, feat, top>>

Examine(w) ==
    /\ pc[w] = "iter"
    /\ \E j \in todo[w] :
        /\ todo' = [todo EXCEPT ![w] = @ \ {j}]
        /\ cur' = [cur EXCEPT ![w] = j]
        /\ res' = [res EXCEPT ![w] = "none"]
        /\ IF AlreadyProcessed(kind, status[j], files[j])
           THEN /\ last' = [last EXCEPT ![w] = "skipped"]
                /\ pc' = pc
           ELSE IF ~FindFiles(kind, upload[j])
           THEN /\ last' = [last EXCEPT ![w] = "noinput"]
                /\ pc' = pc
           ELSE /\ last' = [last EXCEPT ![w] = "none"]
                /\ pc' = [pc EXCEPT ![w] = IF kind = "stub" THEN "ppt" ELSE "mark"]
    /\ UNCHANGED <<kind, upload, status, files, df, out,
                   analysis, artifact, feat, top>>

\* variant: the pipeline is started without writing the marker first
MarkNoWrite(w) ==
    /\ pc[w] = "mark"
    /\ pc' = [pc EXCEPT ![w] = "run"]
    /\ UNCHANGED <<kind, upload, status, files, cur, todo, res, last, df, out,
                   analysis, artifact, feat, top>>

\* variant: the marker is claimed with create-if-absent, backing off when
\* status.txt already exists
MarkWithClaim(w) ==
    /\ pc[w] = "mark"
    /\ IF status[cur[w]] = "none"
       THEN /\ status' = [status EXCEPT ![cur[w]] = "processing"]
            /\ pc' = [pc EXCEPT ![w] = "run"]
       ELSE /\ status' = status
            /\ pc' = [pc EXCEPT ![w] = "iter"]
    /\ UNCHANGED <<kind, upload, files, cur, todo, res, last, df, out,
                   analysis, artifact, feat, top>>

Mark(w) ==
    /\ pc[w] = "mark"
    /\ status' = [status EXCEPT ![cur[w]] = "processing"]
    /\ pc' = [pc EXCEPT ![w] = "run"]
    /\ UNCHANGED <<kind, upload, files, cur, todo, res, last, df, out,
                   analysis, artifact, feat, top>>

EndSweep(w) ==
    /\ pc[w] = "iter"
    /\ todo[w] = {}
    /\ pc' = [pc EXCEPT ![w] = "loop"]
    /\ UNCHANGED <<kind, upload, status, files, cur, todo, res, last, df, out,
                   analysis, artifact, feat, top>>

Kill(w) ==
    /\ pc[w] \notin {"boot", "off"}
    /\ pc' = [pc EXCEPT ![w] = "boot"]
    /\ cur' = [cur EXCEPT ![w] = NoJob]
    /\ todo' = [todo EXCEPT ![w] = {}]
    /\ res' = [res EXCEPT ![w] = "none"]
    /\ last' = [last EXCEPT ![w] = "none"]
    /\ UNCHANGED <<kind, upload, status, files, df, out,
                   analysis, artifact, feat, top>>

----------------------------------------------------------------------------
(* Analyzer coordinator: data.worker_loop *)

RunAnalyzer(w) ==
    /\ kind = "analyzer"
    /\ pc[w] = "run"
    /\ res' = [res EXCEPT ![w] = process_csv_file(ReadPath(kind, upload[cur[w]]))]
    /\ pc' = [pc EXCEPT ![w] = "save"]
    /\ UNCHANGED <<kind, upload, status, files, cur, todo, last, df, out,
                   analysis, artifact, feat, top>>

\* open(json_path, "w") creates report.json before json.dump runs; a dump
\* that raises is caught only by the handler around the whole sweep.
Save(w) ==
    /\ pc[w] = "save"
    /\ files' = [files EXCEPT ![cur[w]] = @ \cup {"report.json"}]
    /\ IF res[w] = "report" /\ upload[cur[w]].content = "unserial"
       THEN /\ pc' = [pc EXCEPT ![w] = "loop"]
            /\ last' = [last EXCEPT ![w] = "aborted"]
       ELSE /\ pc' = [pc EXCEPT ![w] = "final"]
            /\ last' = last
    /\ UNCHANGED <<kind, upload, status, cur, todo, res, df, out,
                   analysis, artifact, feat, top>>

----------------------------------------------------------------------------
(* UVI coordinator: worker_stub.worker_loop calling uni.run_uvi *)

RunUvi(w) ==
    /\ kind = "uvi"
    /\ pc[w] = "run"
    /\ LET r == process_csv_file(ReadPath(kind, upload[cur[w]])) IN
        /\ res' = [res EXCEPT ![w] = r]
        /\ pc' = [pc EXCEPT ![w] =
                    IF ~Success(r) THEN "final"
                    ELSE IF r = "readerr" THEN "except"
                    ELSE "insights"]
    /\ UNCHANGED <<kind, upload, status, files, cur, todo, last, df, out,
                   analysis, artifact, feat, top>>

Insights(w) ==
    /\ pc[w] = "insights"
    /\ files' = [files EXCEPT ![cur[w]] = @ \cup {"insights.json"}]
    /\ pc' = [pc EXCEPT ![w] = "describe"]
    /\ UNCHANGED <<kind, upload, status, cur, todo, res, last, df, out,
                   analysis, artifact, feat, top>>

Describe(w) ==
    /\ pc[w] = "describe"
    /\ files' = [files EXCEPT ![cur[w]] = @ \cup {"description.json"}]
    /\ pc' = [pc EXCEPT ![w] =
                IF upload[cur[w]].content = "unserial" THEN "except" ELSE "final"]
    /\ UNCHANGED <<kind, upload, status, cur, todo, res, last, df, out,
                   analysis, artifact, feat, top>>

Except(w) ==
    /\ pc[w] = "except"
    /\ status' = [status EXCEPT ![cur[w]] = "failed"]
    /\ pc' = [pc EXCEPT ![w] = "iter"]
    /\ last' = [last EXCEPT ![w] = "finished"]
    /\ UNCHANGED <<kind, upload, files, cur, todo, res, df, out,
                   analysis, artifact, feat, top>>

----------------------------------------------------------------------------
(* Both coordinators: the final rewrite of status.txt *)

FinalStatus(k, r) ==
    IF k = "analyzer" THEN (IF Success(r) THEN "completed" ELSE "failed")
    ELSE "completed"

Final(w) ==
    /\ pc[w] = "final"
    /\ status' = [status EXCEPT ![cur[w]] = FinalStatus(kind, res[w])]
    /\ pc' = [pc EXCEPT ![w] = "iter"]
    /\ last' = [last EXCEPT ![w] = "finished"]
    /\ UNCHANGED <<kind, upload, files, cur, todo, res, df, out,
                   analysis, artifact, feat, top>>

----------------------------------------------------------------------------
(* Slide stub coordinator: excelppt worker_stub.worker_loop *)

MakeSamplePpt(w) ==
    /\ pc[w] = "ppt"
    /\ files' = [files EXCEPT ![cur[w]] = @ \cup {"presentation.pptx"}]
    /\ pc' = [pc EXCEPT ![w] = "iter"]
    /\ last' = [last EXCEPT ![w] = "finished"]
    /\ UNCHANGED <<kind, upload, status, cur, todo, res, df, out,
                   analysis, artifact, feat, top>>

----------------------------------------------------------------------------
(* Specifications of the coordinators *)

Next ==
    \/ \E j \in Jobs : MkJobDir(j)
    \/ \E j \in Jobs : WriteInput(j)
    \/ \E w \in Workers2 : Boot(w)
    \/ \E w \in Workers2 : StartSweep(w)
    \/ \E w \in Workers2 : Examine(w)
    \/ \E w \in Workers2 : Mark(w)
    \/ \E w \in Workers2 : RunAnalyzer(w)
    \/ \E w \in Workers2 : Save(w)
    \/ \E w \in Workers2 : RunUvi(w)
    \/ \E w \in Workers2 : Insights(w)
    \/ \E w \in Workers2 : Describe(w)
    \/ \E w \in Workers2 : Except(w)
    \/ \E w \in Workers2 : Final(w)
    \/ \E w \in Workers2 : MakeSamplePpt(w)
    \/ \E w \in Workers2 : EndSweep(w)
    \/ \E w \in Workers2 : Kill(w)

Spec == Init /\ [][Next]_vars

SpecMulti == InitMulti /\ [][Next]_vars

TypeOK ==
    /\ kind \in Kinds
    /\ upload \in [Jobs -> Uploads]
    /\ status \in [Jobs -> {"none", "processing", "completed", "failed"}]
    /\ \A j \in Jobs : files[j] \subseteq
         {"report.json", "description.json", "insights.json", "presentation.pptx"}
    /\ pc \in [Workers2 -> Busy \cup {"boot", "loop", "iter", "off"}]
    /\ cur \in [Workers2 -> Jobs \cup {NoJob}]
    /\ res \in [Workers2 -> {"none", "report", "readerr", "fail"}]

----------------------------------------------------------------------------
(* Type Classifier: ExcelToJSONAnalyzer.separate_data_types *)

\* A dataset is nrows rows over an ordered list of columns; a column is named
\* by its position and holds its pandas dtype and one cell per row.
Dtypes == {"int64", "float64", "bool", "object", "datetime64"}

CellsOf(dt) ==
    CASE dt = "int64" -> {"num"}
      [] dt = "float64" -> {"num", "null"}
      [] dt = "bool" -> {"bool"}
      [] dt = "object" -> {"text", "date", "null"}
      [] OTHER -> {"ts", "null"}

ColumnsOf(n) ==
    UNION {[dtype : {dt}, cells : [1..n -> CellsOf(dt)]] : dt \in Dtypes}

Datasets ==
    UNION {[nrows : {n}, cols : UNION {[1..c -> ColumnsOf(n)] : c \in 0..MaxCols}] :
              n \in 0..MaxRows}

SampleSize == 10

Indices(d) == [i \in 1..Len(d.cols) |-> i]

IsNumber(d, i) == d.cols[i].dtype \in {"int64", "float64"}

IsObject(d, i) == d.cols[i].dtype = "object"

IsDatetime64(d, i) == d.cols[i].dtype = "datetime64"

NotNull(c) == c # "null"

\* variant: every non-null value is sampled
sample_dataWhole(d, i) == SelectSeq(d.cols[i].cells, NotNull)

\* self.df[col].dropna().head(10)
sample_data(d, i) ==
    LET nn == SelectSeq(d.cols[i].cells, NotNull)
    IN  IF Len(nn) <= SampleSize THEN nn ELSE SubSeq(nn, 1, SampleSize)

\* pd.to_datetime(sample, errors='raise') returns without raising
ParsesAsDates(smp) == \A k \in 1..Len(smp) : smp[k] = "date"

Promoted(d, i) ==
    /\ IsObject(d, i)
    /\ Len(sample_data(d, i)) > 0
    /\ ParsesAsDates(sample_data(d, i))

separate_data_types(d) ==
    LET isNum(i) == IsNumber(d, i)
        isCat(i) == IsObject(d, i) /\ ~Promoted(d, i)
        isDt(i) == IsDatetime64(d, i)
        isPot(i) == Promoted(d, i)
    IN  [numerical |-> SelectSeq(Indices(d), isNum),
         categorical |-> SelectSeq(Indices(d), isCat),
         datetime |-> SelectSeq(Indices(d), isDt) \o SelectSeq(Indices(d), isPot),
         done |-> TRUE]

\* the coordinators at rest, for the specifications of the pure components
IdleCoord ==
    /\ kind = "analyzer"
    /\ upload = [j \in Jobs |-> NoDir]
    /\ status = [j \in Jobs |-> "none"]
    /\ files = [j \in Jobs |-> {}]
    /\ pc = [w \in Workers2 |-> "off"]
    /\ cur = [w \in Workers2 |-> NoJob]
    /\ todo = [w \in Workers2 |-> {}]
    /\ res = [w \in Workers2 |-> "none"]
    /\ last = [w \in Workers2 |-> "none"]

InitClassifier ==
    /\ IdleCoord
    /\ df \in Datasets
    /\ out = [numerical |-> <<>>, categorical |-> <<>>, datetime |-> <<>>, done |-> FALSE]
    /\ analysis = NoAnalysis
    /\ artifact = NoArtifact
    /\ feat = NoFeat
    /\ top = NoTop

Classify ==
    /\ ~out.done
    /\ out' = separate_data_types(df)
    /\ UNCHANGED <<kind, upload, status, files, pc, cur, todo, res, last, df,
                   analysis, artifact, feat, top>>

\* Profiling Engine: ExcelToJSONAnalyzer.analyze_dataset (dataset level)
IsNull(c) == c = "null"

MissingIn(col) == Len(SelectSeq(col.cells, IsNull))

RECURSIVE SumMissing(_, _)
SumMissing(cols, k) ==
    IF k = 0 THEN 0 ELSE MissingIn(cols[k]) + SumMissing(cols, k - 1)

\* a percentage kept as the exact quotient num / den * 100; den = 0 is the
\* NaN that numpy returns for 0 / 0
completeness_score(rows, columns, missing) ==
    [num |-> rows * columns - missing, den |-> rows * columns]

analyze_dataset(d) ==
    LET rows == d.nrows
        columns == Len(d.cols)
        missing == SumMissing(d.cols, Len(d.cols))
        types == separate_data_types(d)
    IN  [done |-> TRUE, total_rows |-> rows, total_columns |-> columns,
         total_missing |-> missing,
         basic_info |-> [file_name |-> "input",
                         columns |-> [i \in 1..columns |-> "col"]],
         data_types |-> [numerical_columns |-> types.numerical,
                         categorical_columns |-> types.categorical,
                         datetime_columns |-> types.datetime],
         completeness |-> completeness_score(rows, columns, missing)]

Analyze ==
    /\ ~analysis.done
    /\ analysis' = analyze_dataset(df)
    /\ UNCHANGED <<kind, upload, status, files, pc, cur, todo, res, last, df, out,
                   artifact, feat, top>>

NextClassifier ==
    \/ Classify
    \/ Analyze

SpecClassifier == InitClassifier /\ [][NextClassifier]_vars

----------------------------------------------------------------------------
(* Properties of the job coordinators *)

Coordinators == {"uvi", "analyzer"}

Artifacts == {"report.json", "description.json", "insights.json"}

HasMarkerAndArtifacts(j) == status[j] # "none" /\ Expected(kind) \subseteq files[j]

HasCompletedAndArtifacts(j) == status[j] = "completed" /\ Expected(kind) \subseteq files[j]

\* the step in which instance w takes job j off the sweep and examines it
Examines(w, j) ==
    /\ kind \in Coordinators
    /\ pc[w] = "iter"
    /\ j \in todo[w]
    /\ j \notin todo'[w]
    /\ pc'[w] # "boot"

\* the step in which instance w leaves the loop body of its current job
Leaves(w) ==
    /\ kind \in Coordinators
    /\ pc[w] \in Busy
    /\ pc'[w] \notin Busy \cup {"boot"}

\* an exception was raised while instance w processed its current job
Raised(w) == res[w] \in {"fail", "readerr"} \/ pc[w] = "except"

\* C1: with a single coordinator, a sweep that examines a job whose output
\* directory holds a status marker and the expected artifacts does not start
\* the pipeline for it and leaves status.txt and every artifact of the job as
\* they were, for as long as that skip is the instance's latest decision; the
\* decision reads only the filesystem, so it is the same after a restart.
C1_SkipLeavesJobUntouched ==
    [][\A w \in Workers1 : \A j \in Jobs :
         /\ (Examines(w, j) /\ HasMarkerAndArtifacts(j)) =>
                (pc'[w] = "iter" /\ status'[j] = status[j] /\ files'[j] = files[j])
         /\ (kind \in Coordinators /\ last[w] = "skipped" /\ cur[w] = j) =>
                (status'[j] = status[j] /\ files'[j] = files[j])]_vars

C1_Witness ==
    \E w \in Workers1 :
        /\ kind \in Coordinators
        /\ last[w] = "skipped"
        /\ HasCompletedAndArtifacts(cur[w])

\* C2: status.txt is monotonic: once it reads "completed" or "failed" it
\* never again reads "processing".
C2_StatusMonotonic ==
    [][\A j \in Jobs :
         (kind \in Coordinators /\ status[j] \in {"completed", "failed"}) =>
             status'[j] # "processing"]_vars

\* C3: whenever status.txt reads "completed", every expected artifact of the
\* job exists in its output directory.
C3_CompletedHasArtifacts ==
    \A j \in Jobs :
        (kind \in Coordinators /\ status[j] = "completed") =>
            Expected(kind) \subseteq files[j]

\* C4: a job whose input is unreadable or corrupt is never marked
\* "completed"; once the coordinator has finished with it its marker reads
\* "failed" and no artifact file is left in its output directory.
C4_CorruptInputFails ==
    /\ \A j \in Jobs :
         (kind \in Coordinators /\ upload[j].content = "corrupt") =>
             status[j] # "completed"
    /\ \A w \in Workers1 :
         (kind \in Coordinators /\ last[w] = "finished"
              /\ upload[cur[w]].content = "corrupt") =>
             (status[cur[w]] = "failed" /\ files[cur[w]] \cap Artifacts = {})

\* C5: an exception raised while a job is processed is caught at the job's
\* boundary: the coordinator leaves the loop body towards the next job of the
\* same sweep (never abandoning the sweep), and the job's marker then reads
\* "failed".
C5_ExceptionCaughtAtJobBoundary ==
    [][\A w \in Workers1 :
         Leaves(w) =>
             /\ pc'[w] = "iter"
             /\ Raised(w) => status'[cur[w]] = "failed"]_vars

\* C6: a job whose marker reads "failed" is never retried: no coordinator
\* starts the pipeline (marks the job "processing" and runs it) for a job
\* whose status.txt reads "failed".
C6_FailedNeverRetried ==
    [][\A w \in Workers1 :
         (kind \in Coordinators /\ pc[w] = "mark" /\ pc'[w] = "run") =>
             status[cur[w]] # "failed"]_vars

C8_NoAtomicClaim ==
    [][\A w \in Workers2 :
         (kind \in Coordinators /\ pc[w] = "mark" /\ pc'[w] \notin {"mark", "boot"}) =>
             (pc'[w] = "run" /\ status'[cur[w]] = "processing")]_vars

C8_Witness ==
    \E j \in Jobs :
        /\ kind \in Coordinators
        /\ \A w \in Workers2 : cur[w] = j /\ pc[w] \in Busy /\ res[w] # "none"

\* C9: once a job's pipeline has failed, the status the user reads is
\* "failed": status.txt reads "failed", and GET /status/{job_id} answers
\* "failed" for a job whose status.txt reads "failed".
C9_FailedIsObservable ==
    /\ \A w \in Workers1 :
         (kind \in Coordinators /\ last[w] = "finished"
              /\ res[w] \in {"fail", "readerr"}) =>
             status[cur[w]] = "failed"
    /\ \A j \in Jobs :
         (kind \in Coordinators /\ status[j] = "failed") => JobStatus(j) = "failed"

----------------------------------------------------------------------------
(* Properties of the Type Classifier *)

AllClassified == out.numerical \o out.categorical \o out.datetime

Occurrences(sq, x) == Cardinality({k \in 1..Len(sq) : sq[k] = x})

\* C10: the three sequences partition the dataset's columns: every column
\* appears exactly once across Numerical, Categorical and Datetime.
C10_Partition ==
    out.done =>
        /\ \A i \in 1..Len(df.cols) : Occurrences(AllClassified, i) = 1
        /\ Len(AllClassified) = Len(df.cols)

----------------------------------------------------------------------------
(* Properties of the Profiling Engine *)

IsNaN(c) == c.den = 0

\* C13: the completeness score lies in [0,100] and equals 100 exactly when
\* no cell is missing, for every dataset, those with no rows or no columns
\* included.
C13_CompletenessRange ==
    analysis.done =>
        /\ ~IsNaN(analysis.completeness)
        /\ 0 <= analysis.completeness.num
        /\ analysis.completeness.num <= analysis.completeness.den
        /\ (analysis.completeness.num = analysis.completeness.den)
               <=> (analysis.total_missing = 0)

\* C20: each of the three sequences lists its columns in their original
\* dataset order.
Ascending(sq) == \A a, b \in 1..Len(sq) : a < b => sq[a] < sq[b]

C20_OriginalOrder ==
    out.done =>
        /\ Ascending(out.numerical)
        /\ Ascending(out.categorical)
        /\ Ascending(out.datetime)

----------------------------------------------------------------------------
(* Feature Significance Scorer: support.py *)

\* floats are exact quotients num / den; den = 0 is NaN
NaN == [num |-> 0, den |-> 0]

F(v) == [num |-> v, den |-> 1]

Tenths(v) == [num |-> v, den |-> 10]

\* float comparison: every comparison with NaN is false
FLt(a, b) == a.den # 0 /\ b.den # 0 /\ a.num * b.den < b.num * a.den

FEq(a, b) == a.den # 0 /\ b.den # 0 /\ a.num * b.den = b.num * a.den

FSub(a, b) == [num |-> a.num * b.den - b.num * a.den, den |-> a.den * b.den]

\* used only with a positive divisor or NaN
FDiv(a, b) == [num |-> a.num * b.den, den |-> a.den * b.num]

\* Python's min(iterable) and max(iterable): keep the first item, replace it
\* only by an item that compares strictly below (above) it
RECURSIVE PyMinFrom(_, _, _)
PyMinFrom(sq, k, m) ==
    IF k > Len(sq) THEN m
    ELSE PyMinFrom(sq, k + 1, IF FLt(sq[k], m) THEN sq[k] ELSE m)

PyMin(sq) == PyMinFrom(sq, 2, sq[1])

RECURSIVE PyMaxFrom(_, _, _)
PyMaxFrom(sq, k, m) ==
    IF k > Len(sq) THEN m
    ELSE PyMaxFrom(sq, k + 1, IF FLt(m, sq[k]) THEN sq[k] ELSE m)

PyMax(sq) == PyMaxFrom(sq, 2, sq[1])

\* pandas' Series.max(): NaN entries are skipped, NaN when nothing is left
IsNumberF(x) == x.den # 0

SkipNaMax(sq) ==
    LET rest == SelectSeq(sq, IsNumberF)
    IN  IF rest = <<>> THEN NaN ELSE PyMax(rest)

\* the scorer's input: columns in dataset order, each with the facts the
\* scorer reads from it, and for every pair of columns of one class the
\* outcome of the pairwise statistic
MaxFeat == 3

Threshold == 50

NUniques == {49, 50, 60}

CorrValues == {3, 8}

Variances == {NaN, F(3), F(8)}

\* a pair of categorical columns: a contingency table that is too small, a
\* test that raises ValueError, or a test that yields 1 - p (in tenths)
ChiOutcomes ==
    {[outcome |-> "degenerate", strength |-> 0],
     [outcome |-> "ValueError", strength |-> 0],
     [outcome |-> "tested", strength |-> 2],
     [outcome |-> "tested", strength |-> 9]}

IsNumerical(c) == c.dtype \in {"int64", "float64"}

IsCategoricalDtype(c) == c.dtype \in {"object", "category", "bool"}

IsDatetime(c) == c.dtype = "datetime64"

FeatColumnsOf(name) ==
    [name : {name}, dtype : {"int64", "float64"}, constant : BOOLEAN,
     nunique : {0}, var : {NaN}]
    \cup [name : {name}, dtype : {"object"}, constant : {FALSE},
          nunique : NUniques, var : {NaN}]
    \cup [name : {name}, dtype : {"bool"}, constant : {FALSE},
          nunique : {2}, var : {NaN}]
    \cup [name : {name}, dtype : {"datetime64"}, constant : {FALSE},
          nunique : {0}, var : Variances]

RECURSIVE FeatColumnSeqs(_)
FeatColumnSeqs(n) ==
    IF n = 0 THEN {<<>>}
    ELSE {Append(sq, c) : sq \in FeatColumnSeqs(n - 1), c \in FeatColumnsOf(n)}

SameClass(c1, c2) ==
    \/ IsNumerical(c1) /\ IsNumerical(c2)
    \/ IsCategoricalDtype(c1) /\ IsCategoricalDtype(c2)

SameClassPairs(cols) ==
    {<<cols[x[1]].name, cols[x[2]].name>> :
        x \in {y \in (1..Len(cols)) \X (1..Len(cols)) :
                  y[1] < y[2] /\ SameClass(cols[y[1]], cols[y[2]])}}

ColNamed(cols, name) == cols[CHOOSE i \in 1..Len(cols) : cols[i].name = name]

PairValues(cols, p) ==
    IF IsNumerical(ColNamed(cols, p[1])) THEN CorrValues ELSE ChiOutcomes

RECURSIVE PairTables(_, _)
PairTables(cols, S) ==
    IF S = {} THEN {<<>>}
    ELSE LET p == CHOOSE q \in S : TRUE
         IN  {(p :> v) @@ t : v \in PairValues(cols, p),
                              t \in PairTables(cols, S \ {p})}

IsFeat(d) ==
    \E n \in 0..MaxFeat :
        \E cols \in FeatColumnSeqs(n) :
            \E pair \in PairTables(cols, SameClassPairs(cols)) :
                d = [cols |-> cols, pair |-> pair]

Names(cols) == [i \in 1..Len(cols) |-> cols[i].name]

PairOf(d, a, b) == IF <<a, b>> \in DOMAIN d.pair THEN d.pair[<<a, b>>] ELSE d.pair[<<b, a>>]

\* support.py:13-17
numerical_cols(d) == Names(SelectSeq(d.cols, IsNumerical))

\* variant: a column with exactly Threshold distinct values is kept
BelowThresholdInclusive(c) == c.nunique <= Threshold

BelowThreshold(c) == c.nunique < Threshold

categorical_cols(d) ==
    Names(SelectSeq(SelectSeq(d.cols, IsCategoricalDtype), BelowThreshold))

datetime_cols(d) == Names(SelectSeq(d.cols, IsDatetime))

\* df[numerical_cols].corr(method="pearson").abs(): a column without
\* variance has NaN in its whole row and column, the diagonal included
pearson_corr(d, a, b) ==
    IF ColNamed(d.cols, a).constant \/ ColNamed(d.cols, b).constant THEN NaN
    ELSE IF a = b THEN Tenths(10)
    ELSE Tenths(PairOf(d, a, b))

\* pearson_corr.max(): for each column the maximum of its whole column of
\* the matrix
num_scores(d) ==
    LET nc == numerical_cols(d)
    IN  [k \in 1..Len(nc) |->
            SkipNaMax([r \in 1..Len(nc) |-> pearson_corr(d, nc[r], nc[k])])]

\* variant: a class whose raw scores all tie normalizes to 1.0
NormalizedTieIsOne(score, min_s, max_s) ==
    IF FLt(min_s, max_s) THEN FDiv(FSub(score, min_s), FSub(max_s, min_s))
    ELSE F(1)

\* (score - min_s) / (max_s - min_s) if max_s > min_s else 0.0
Normalized(score, min_s, max_s) ==
    IF FLt(min_s, max_s) THEN FDiv(FSub(score, min_s), FSub(max_s, min_s))
    ELSE F(0)

Normalize(names, raw, type) ==
    LET min_s == PyMin(raw)
        max_s == PyMax(raw)
    IN  [k \in 1..Len(names) |->
            [feature |-> names[k], score |-> Normalized(raw[k], min_s, max_s),
             type |-> type]]

\* the pairs a column takes part in, in the order the double loop visits them
Partners(cc, k) == [i \in 1..(Len(cc) - 1) |-> IF i < k THEN cc[i] ELSE cc[i + 1]]

IsTested(o) == o.outcome = "tested"

\* cat_strength[col] = max(cat_strength[col], score), starting from 0
RECURSIVE Strength(_, _, _, _, _)
Strength(d, col, partners, i, acc) ==
    IF i > Len(partners) THEN acc
    ELSE LET o == PairOf(d, col, partners[i])
             score == Tenths(o.strength)
         IN  Strength(d, col, partners, i + 1,
                      IF IsTested(o) /\ FLt(acc, score) THEN score ELSE acc)

cat_strength(d) ==
    LET cc == categorical_cols(d)
    IN  [k \in 1..Len(cc) |-> Strength(d, cc[k], Partners(cc, k), 1, F(0))]

dt_scores(d) ==
    LET dc == datetime_cols(d)
    IN  [k \in 1..Len(dc) |-> ColNamed(d.cols, dc[k]).var]

dataset_feature_analysis(d) ==
    LET nc == numerical_cols(d)
        cc == categorical_cols(d)
        dc == datetime_cols(d)
        num == IF Len(nc) > 1 THEN Normalize(nc, num_scores(d), "numerical") ELSE <<>>
        cat == IF Len(cc) > 1 THEN Normalize(cc, cat_strength(d), "categorical") ELSE <<>>
        dt == IF Len(dc) > 0 THEN Normalize(dc, dt_scores(d), "datetime") ELSE <<>>
    IN  [stage |-> "scored",
         raw |-> [numerical |-> IF Len(nc) > 1 THEN num_scores(d) ELSE <<>>,
                  categorical |-> IF Len(cc) > 1 THEN cat_strength(d) ELSE <<>>,
                  datetime |-> IF Len(dc) > 0 THEN dt_scores(d) ELSE <<>>],
         feature_scores |-> num \o cat \o dt,
         col_types |-> [numerical |-> nc, categorical |-> cc, datetime |-> dc]]

\* sorted(items, key=score, reverse=True) as CPython's list.sort carries it
\* out for short lists: reverse, find the leading run, binary insertion of
\* the rest, reverse again; the only comparison used is key < key
Reverse(sq) == [i \in 1..Len(sq) |-> sq[Len(sq) + 1 - i]]

ItemLt(x, y) == FLt(x.score, y.score)

RECURSIVE DescendingRun(_, _)
DescendingRun(sq, k) ==
    IF k < Len(sq) /\ ItemLt(sq[k + 1], sq[k]) THEN DescendingRun(sq, k + 1) ELSE k

RECURSIVE AscendingRun(_, _)
AscendingRun(sq, k) ==
    IF k < Len(sq) /\ ~ItemLt(sq[k + 1], sq[k]) THEN AscendingRun(sq, k + 1) ELSE k

RECURSIVE BinarySearch(_, _, _, _)
BinarySearch(sq, pivot, lo, hi) ==
    IF lo >= hi THEN lo
    ELSE LET mid == (lo + hi) \div 2
         IN  IF ItemLt(pivot, sq[mid + 1]) THEN BinarySearch(sq, pivot, lo, mid)
             ELSE BinarySearch(sq, pivot, mid + 1, hi)

RECURSIVE BinarySort(_, _)
BinarySort(sq, start) ==
    IF start >= Len(sq) THEN sq
    ELSE LET pivot == sq[start + 1]
             pos == BinarySearch(sq, pivot, 0, start)
         IN  BinarySort(SubSeq(sq, 1, pos) \o <<pivot>> \o SubSeq(sq, pos + 1, start)
                            \o SubSeq(sq, start + 2, Len(sq)),
                        start + 1)

ListSort(sq) ==
    IF Len(sq) < 2 THEN sq
    ELSE IF ItemLt(sq[2], sq[1])
         THEN LET n == DescendingRun(sq, 2)
              IN  BinarySort(Reverse(SubSeq(sq, 1, n)) \o SubSeq(sq, n + 1, Len(sq)), n)
         ELSE BinarySort(sq, AscendingRun(sq, 2))

SortedReverse(sq) == Reverse(ListSort(Reverse(sq)))

top_num == 2

top_cat == 2

top_dt == 1

Take(sq, n) == SubSeq(sq, 1, IF Len(sq) < n THEN Len(sq) ELSE n)

IsNumericalItem(x) == x.type = "numerical"

IsCategoricalItem(x) == x.type = "categorical"

IsDatetimeItem(x) == x.type = "datetime"

get_top_features(report) ==
    [stage |-> "ranked",
     raw |-> report.raw,
     feature_scores |-> report.feature_scores,
     col_types |-> report.col_types,
     overall_rank |-> SortedReverse(report.feature_scores),
     top_numerical_features |->
         Take(SortedReverse(SelectSeq(report.feature_scores, IsNumericalItem)), top_num),
     top_categorical_features |->
         Take(SortedReverse(SelectSeq(report.feature_scores, IsCategoricalItem)), top_cat),
     top_datetime_features |->
         Take(SortedReverse(SelectSeq(report.feature_scores, IsDatetimeItem)), top_dt)]

InitScorer ==
    /\ IdleCoord
    /\ df = [nrows |-> 0, cols |-> <<>>]
    /\ out = [numerical |-> <<>>, categorical |-> <<>>, datetime |-> <<>>, done |-> FALSE]
    /\ analysis = NoAnalysis
    /\ artifact = NoArtifact
    /\ IsFeat(feat)
    /\ top = NoTop

\* chi2_contingency raises something that "except ValueError" does not
\* catch: the exception leaves dataset_feature_analysis
chi2_raises(d) ==
    LET cc == categorical_cols(d)
    IN  /\ Len(cc) > 1
        /\ \E i, j \in 1..Len(cc) :
               i < j /\ PairOf(d, cc[i], cc[j]).outcome = "Exception"

FeatureAnalysis ==
    /\ top.stage = "none"
    /\ top' = IF chi2_raises(feat) THEN [stage |-> "raised"]
              ELSE dataset_feature_analysis(feat)
    /\ UNCHANGED <<kind, upload, status, files, pc, cur, todo, res, last, df, out,
                   analysis, artifact, feat>>

TopFeatures ==
    /\ top.stage = "scored"
    /\ top' = get_top_features(top)
    /\ UNCHANGED <<kind, upload, status, files, pc, cur, todo, res, last, df, out,
                   analysis, artifact, feat>>

NextScorer ==
    \/ FeatureAnalysis
    \/ TopFeatures

SpecScorer == InitScorer /\ [][NextScorer]_vars

----------------------------------------------------------------------------
(* Insight Renderer: ExcelToJSONAnalyzer.generate_json_analysis and the
   json.dump that writes the artifact *)

\* completeness_score as the float the code holds: the quotient times 100
Percent(c) == [num |-> 100 * c.num, den |-> c.den]

\* round(x, 1); a NaN stays NaN, and a tie is rounded up
Round1(x) ==
    IF x.den = 0 THEN NaN
    ELSE [num |-> (20 * x.num + x.den) \div (2 * x.den), den |-> 10]

\* data.py:165
left_quality_rating(completeness) ==
    IF FLt(F(95), completeness) THEN "Excellent"
    ELSE IF FLt(F(85), completeness) THEN "Good"
    ELSE IF FLt(F(70), completeness) THEN "Fair"
    ELSE "Poor"

generate_left_column_content(a) ==
    [overall_completeness |-> Round1(Percent(a.completeness)),
     quality_rating_line |-> left_quality_rating(Percent(a.completeness)),
     missing_line |-> IF a.total_missing > 0 THEN "missing values total"
                      ELSE "No missing values detected"]

\* data.py:217-242
volume_line(data_volume) ==
    IF data_volume > 10000 THEN "Large-scale dataset for enterprise insights"
    ELSE IF data_volume > 1000 THEN "Medium-scale dataset for departmental analysis"
    ELSE "Focused dataset for targeted analysis"

richness_line(var_count) ==
    IF var_count > 20 THEN "Rich feature set for comprehensive analysis"
    ELSE IF var_count > 10 THEN "Adequate variables for detailed insights"
    ELSE "Focused variable set for specific analysis"

reliability_line(completeness) ==
    IF FLt(F(90), completeness) THEN "High reliability for business decisions"
    ELSE IF FLt(F(75), completeness) THEN "Moderate reliability with some limitations"
    ELSE "Requires data cleaning for optimal use"

\* data.py:246-272. A name is one word; the words that occur, and what
\* str.lower() makes of them
Words == {"Sales", "price", "CLIENT", "user", "staff", "HR", "col", "input"}

Lower(word) ==
    CASE word = "Sales" -> "sales"
      [] word = "CLIENT" -> "client"
      [] word = "HR" -> "hr"
      [] OTHER -> word

\* variant: customers are looked for before sales
KeywordGroupsCustomerFirst ==
    << [keywords |-> <<"customer", "client", "user">>,
        lines |-> <<"Customer behavior analysis", "Market segmentation studies",
                    "Customer lifetime value modeling">>],
       [keywords |-> <<"sales", "revenue", "price", "cost">>,
        lines |-> <<"Sales performance analysis", "Revenue optimization studies",
                    "Pricing strategy development">>],
       [keywords |-> <<"employee", "staff", "hr", "payroll">>,
        lines |-> <<"Workforce analytics", "Performance management insights",
                    "HR optimization strategies">>] >>

\* the if / elif / elif chain, top to bottom
KeywordGroups ==
    << [keywords |-> <<"sales", "revenue", "price", "cost">>,
        lines |-> <<"Sales performance analysis", "Revenue optimization studies",
                    "Pricing strategy development">>],
       [keywords |-> <<"customer", "client", "user">>,
        lines |-> <<"Customer behavior analysis", "Market segmentation studies",
                    "Customer lifetime value modeling">>],
       [keywords |-> <<"employee", "staff", "hr", "payroll">>,
        lines |-> <<"Workforce analytics", "Performance management insights",
                    "HR optimization strategies">>] >>

ElseLines ==
    <<"Exploratory data analysis", "Pattern recognition studies",
      "Statistical modeling projects", "Business intelligence reporting">>

\* keyword in file_name or any(keyword in col for col in columns)
KeywordFound(keyword, file_name, columns) ==
    \/ keyword = file_name
    \/ \E i \in 1..Len(columns) : keyword = columns[i]

GroupMatches(group, file_name, columns) ==
    \E k \in 1..Len(group.keywords) : KeywordFound(group.keywords[k], file_name, columns)

RECURSIVE FirstMatch(_, _, _, _)
FirstMatch(groups, g, file_name, columns) ==
    IF g > Len(groups) THEN ElseLines
    ELSE IF GroupMatches(groups[g], file_name, columns) THEN groups[g].lines
    ELSE FirstMatch(groups, g + 1, file_name, columns)

key_applications(info) ==
    FirstMatch(KeywordGroups, 1, Lower(info.file_name),
               [i \in 1..Len(info.columns) |-> Lower(info.columns[i])])

generate_right_column_content(a) ==
    [applications |-> key_applications(a.basic_info),
     statistical_line |-> Len(a.data_types.numerical_columns) > 0,
     segmentation_line |-> Len(a.data_types.categorical_columns) > 0,
     volume_line |-> volume_line(a.total_rows),
     richness_line |-> richness_line(a.total_columns),
     reliability_line |-> reliability_line(Percent(a.completeness))]

\* data.py:304 and 322-324
quality_rating(completeness) ==
    IF FLt(F(95), completeness) THEN "Excellent"
    ELSE IF FLt(F(85), completeness) THEN "Good"
    ELSE IF FLt(F(70), completeness) THEN "Fair"
    ELSE "Poor"

data_scale(total_rows) ==
    IF total_rows > 10000 THEN "Large-scale"
    ELSE IF total_rows > 1000 THEN "Medium-scale"
    ELSE "Focused"

variable_richness(total_columns) ==
    IF total_columns > 20 THEN "Rich"
    ELSE IF total_columns > 10 THEN "Adequate"
    ELSE "Focused"

\* variant: a completeness of exactly 90 counts as high reliability
reliabilityAtLeast(completeness) ==
    IF ~FLt(completeness, F(90)) /\ IsNumberF(completeness) THEN "High"
    ELSE IF FLt(F(75), completeness) THEN "Moderate"
    ELSE "Limited"

reliability(completeness) ==
    IF FLt(F(90), completeness) THEN "High"
    ELSE IF FLt(F(75), completeness) THEN "Moderate"
    ELSE "Limited"

\* the key/value pairs of the dict display at data.py:285-340, in the order
\* they are written; every value is evaluated
json_output_items(a) ==
    LET completeness == Percent(a.completeness) IN
    << <<"main_title", [text |-> "Dataset Overview & Analysis"]>>,
       <<"summary_stats",
         [total_records |-> a.total_rows,
          total_variables |-> a.total_columns,
          completeness_percentage |-> Round1(completeness)]>>,
       <<"",
         [content |-> generate_left_column_content(a),
          structured_data |->
              [dataset_overview |->
                   [total_records |-> a.total_rows,
                    feature_variables |-> a.total_columns,
                    numerical_fields |-> Len(a.data_types.numerical_columns),
                    categorical_fields |-> Len(a.data_types.categorical_columns)],
               data_quality |->
                   [completeness_percentage |-> Round1(completeness),
                    quality_rating |-> quality_rating(completeness)],
               missing_data |-> [total_missing |-> a.total_missing]]]>>,
       <<"",
         [content |-> generate_right_column_content(a),
          structured_data |->
              [analytical_capabilities |->
                   [statistical_analysis |-> Len(a.data_types.numerical_columns) > 0,
                    segmentation_analysis |-> Len(a.data_types.categorical_columns) > 0,
                    mixed_type_analysis |->
                        Len(a.data_types.numerical_columns) > 0
                        /\ Len(a.data_types.categorical_columns) > 0],
               business_value |->
                   [data_scale |-> data_scale(a.total_rows),
                    variable_richness |-> variable_richness(a.total_columns),
                    reliability |-> reliability(completeness)]]]>>,
       <<"data_type_separation", a.data_types>>,
       <<"full_analysis",
         [total_rows |-> a.total_rows, total_columns |-> a.total_columns,
          total_missing |-> a.total_missing,
          completeness_score |-> completeness]>>,
       <<"generation_timestamp", [text |-> "now"]>>,
       <<"processing_info", [processing_status |-> "completed"]>> >>

\* a dict display keeps, for a key written more than once, the last value
DictOf(items) ==
    [k \in {items[i][1] : i \in 1..Len(items)} |->
        items[CHOOSE i \in 1..Len(items) :
                 /\ items[i][1] = k
                 /\ \A j \in 1..Len(items) : items[j][1] = k => j <= i][2]]

generate_json_analysis(a) ==
    [done |-> TRUE, dumped |-> FALSE,
     items |-> json_output_items(a),
     json_output |-> DictOf(json_output_items(a))]

\* json.dump writes a float with float.__repr__: a finite float as a number,
\* NaN as the bare token NaN; default= is asked only about objects the
\* encoder cannot serialize, never about a float
EncodeFloat(x) ==
    IF x.den = 0 THEN [quoted |-> FALSE, text |-> "NaN"]
    ELSE [quoted |-> FALSE, text |-> "number"]

\* the floats of the artifact, by path
FloatsOf(json_output) ==
    [p \in {"summary_stats.completeness_percentage",
            "full_analysis.data_quality.completeness_score"} |->
        IF p = "summary_stats.completeness_percentage"
        THEN json_output["summary_stats"].completeness_percentage
        ELSE json_output["full_analysis"].completeness_score]

json_dump(json_output) ==
    [p \in DOMAIN FloatsOf(json_output) |-> EncodeFloat(FloatsOf(json_output)[p])]

\* the reports the renderer is given
RowCounts == {0, 1000, 1001, 10000, 10001}

ColumnCounts == {0, 10, 11, 20, 21}

MissingPercents == {0, 4, 5, 9, 10, 14, 15, 24, 25, 29, 30, 31}

Reports ==
    {[done |-> TRUE, total_rows |-> r, total_columns |-> c,
      total_missing |-> (r * c * m) \div 100,
      basic_info |-> [file_name |-> "input", columns |-> [i \in 1..c |-> "col"]],
      data_types |-> [numerical_columns |-> nc, categorical_columns |-> cc,
                      datetime_columns |-> <<>>],
      completeness |-> completeness_score(r, c, (r * c * m) \div 100)] :
        r \in RowCounts, c \in ColumnCounts, m \in MissingPercents,
        nc \in {<<>>, <<1>>}, cc \in {<<>>, <<2>>}}

InitRender ==
    /\ IdleCoord
    /\ df = [nrows |-> 0, cols |-> <<>>]
    /\ out = [numerical |-> <<>>, categorical |-> <<>>, datetime |-> <<>>, done |-> FALSE]
    /\ analysis \in {a \in Reports :
                        Len(a.data_types.numerical_columns)
                        + Len(a.data_types.categorical_columns) <= a.total_columns}
    /\ artifact = NoArtifact
    /\ feat = NoFeat
    /\ top = NoTop

GenerateJson ==
    /\ ~artifact.done
    /\ artifact' = generate_json_analysis(analysis)
    /\ UNCHANGED <<kind, upload, status, files, pc, cur, todo, res, last, df, out,
                   analysis, feat, top>>

Dump ==
    /\ artifact.done
    /\ ~artifact.dumped
    /\ artifact' = [artifact EXCEPT !.dumped = TRUE] @@
                   [written |-> json_dump(artifact.json_output)]
    /\ UNCHANGED <<kind, upload, status, files, pc, cur, todo, res, last, df, out,
                   analysis, feat, top>>

NextRender ==
    \/ GenerateJson
    \/ Dump

SpecRender == InitRender /\ [][NextRender]_vars

----------------------------------------------------------------------------
(* Properties of the Feature Significance Scorer *)

Position(name) == CHOOSE i \in 1..Len(feat.cols) : feat.cols[i].name = name

\* two entries of a ranked list are in order when the earlier one has the
\* higher score, or the same score and the earlier position in the dataset
InRankOrder(x, y) ==
    \/ FLt(y.score, x.score)
    \/ FEq(x.score, y.score) /\ Position(x.feature) < Position(y.feature)

Ranked(sq) ==
    \A a, b \in 1..Len(sq) :
        (a < b /\ IsNumberF(sq[a].score) /\ IsNumberF(sq[b].score))
            => InRankOrder(sq[a], sq[b])

\* C11: the per-class top lists hold at most 2, 2 and 1 entries, and they and
\* the overall rank are in descending order of normalized score, columns of
\* equal score in the order of their positions in the dataset, across
\* type-classes too.
C11_RankOrder ==
    top.stage = "ranked" =>
        /\ Len(top.top_numerical_features) <= 2
        /\ Len(top.top_categorical_features) <= 2
        /\ Len(top.top_datetime_features) <= 1
        /\ Ranked(top.top_numerical_features)
        /\ Ranked(top.top_categorical_features)
        /\ Ranked(top.top_datetime_features)
        /\ Ranked(top.overall_rank)

\* C12: in a type-class with at least two scored members every normalized
\* score lies in [0,1], and either no raw score is below another and every
\* member normalizes to 0.0, or some member scores 1.0 and some member 0.0.
InUnitInterval(x) == IsNumberF(x) /\ ~FLt(x, F(0)) /\ ~FLt(F(1), x)

ScoresOf(type) ==
    LET IsType(x) == x.type = type
    IN  SelectSeq(top.feature_scores, IsType)

MinMaxScaled(raw, scores) ==
    Len(scores) >= 2 =>
        /\ \A i \in 1..Len(scores) : InUnitInterval(scores[i].score)
        /\ \/ /\ \A i, j \in 1..Len(raw) : ~FLt(raw[i], raw[j])
              /\ \A i \in 1..Len(scores) : FEq(scores[i].score, F(0))
           \/ /\ \E i \in 1..Len(scores) : FEq(scores[i].score, F(1))
              /\ \E i \in 1..Len(scores) : FEq(scores[i].score, F(0))

C12_NormalizedRange ==
    top.stage # "none" =>
        /\ MinMaxScaled(top.raw.numerical, ScoresOf("numerical"))
        /\ MinMaxScaled(top.raw.categorical, ScoresOf("categorical"))
        /\ MinMaxScaled(top.raw.datetime, ScoresOf("datetime"))

\* C19: the raw score of a numerical column is its largest absolute Pearson
\* correlation with another numerical column, its correlation with itself
\* left out.
OtherCorrelations(names, k) ==
    [i \in 1..(Len(names) - 1) |->
        pearson_corr(feat, names[IF i < k THEN i ELSE i + 1], names[k])]

C19_SelfExcluded ==
    top.stage # "none" =>
        \A k \in 1..Len(top.raw.numerical) :
            LET best == SkipNaMax(OtherCorrelations(top.col_types.numerical, k))
            IN  \/ FEq(top.raw.numerical[k], best)
                \/ ~IsNumberF(top.raw.numerical[k]) /\ ~IsNumberF(best)

\* C14: a categorical column with at least Threshold distinct values gets no
\* score, is in neither the categorical top list nor the overall rank, and
\* the scores of all other columns are what they are without it.
HighCardinality ==
    {feat.cols[i].name :
        i \in {k \in 1..Len(feat.cols) :
                  IsCategoricalDtype(feat.cols[k]) /\ feat.cols[k].nunique >= Threshold}}

Features(sq) == {sq[i].feature : i \in 1..Len(sq)}

Without(d, name) ==
    LET Keep(c) == c.name # name
    IN  [cols |-> SelectSeq(d.cols, Keep),
         pair |-> [p \in {q \in DOMAIN d.pair : q[1] # name /\ q[2] # name} |-> d.pair[p]]]

C14_HighCardinalityExcluded ==
    top.stage = "ranked" =>
        \A c \in HighCardinality :
            /\ c \notin Features(top.feature_scores)
            /\ c \notin Features(top.top_categorical_features)
            /\ c \notin Features(top.overall_rank)
            /\ top.feature_scores = dataset_feature_analysis(Without(feat, c)).feature_scores

C14_Witness ==
    /\ top.stage = "ranked"
    /\ Len(top.top_categorical_features) = 2
    /\ \E c \in HighCardinality :
           \E k \in 1..Len(top.col_types.categorical) :
               /\ PairOf(feat, c, top.col_types.categorical[k]).outcome = "tested"
               /\ FLt(top.raw.categorical[k],
                      Tenths(PairOf(feat, c, top.col_types.categorical[k]).strength))

----------------------------------------------------------------------------
(* Properties of the Insight Renderer *)

\* the completeness percentage of the report exceeds t
Exceeds(t) ==
    analysis.completeness.den > 0
    /\ 100 * analysis.completeness.num > t * analysis.completeness.den

RatingBucket ==
    IF Exceeds(95) THEN "Excellent" ELSE IF Exceeds(85) THEN "Good"
    ELSE IF Exceeds(70) THEN "Fair" ELSE "Poor"

ScaleBucket ==
    IF analysis.total_rows > 10000 THEN "Large-scale"
    ELSE IF analysis.total_rows > 1000 THEN "Medium-scale" ELSE "Focused"

RichnessBucket ==
    IF analysis.total_columns > 20 THEN "Rich"
    ELSE IF analysis.total_columns > 10 THEN "Adequate" ELSE "Focused"

ReliabilityBucket ==
    IF Exceeds(90) THEN "High" ELSE IF Exceeds(75) THEN "Moderate" ELSE "Limited"

\* the bucket a line of the narrative names
BucketNamed(line) ==
    CASE line = "Large-scale dataset for enterprise insights" -> "Large-scale"
      [] line = "Medium-scale dataset for departmental analysis" -> "Medium-scale"
      [] line = "Focused dataset for targeted analysis" -> "Focused"
      [] line = "Rich feature set for comprehensive analysis" -> "Rich"
      [] line = "Adequate variables for detailed insights" -> "Adequate"
      [] line = "Focused variable set for specific analysis" -> "Focused"
      [] line = "High reliability for business decisions" -> "High"
      [] line = "Moderate reliability with some limitations" -> "Moderate"
      [] line = "Requires data cleaning for optimal use" -> "Limited"
      [] OTHER -> line

IsSection(v) == {"content", "structured_data"} \subseteq DOMAIN v

SectionAgrees(v) ==
    /\ "data_quality" \in DOMAIN v.structured_data =>
           /\ v.structured_data.data_quality.quality_rating = RatingBucket
           /\ BucketNamed(v.content.quality_rating_line) = RatingBucket
    /\ "business_value" \in DOMAIN v.structured_data =>
           /\ v.structured_data.business_value.data_scale = ScaleBucket
           /\ BucketNamed(v.content.volume_line) = ScaleBucket
           /\ v.structured_data.business_value.variable_richness = RichnessBucket
           /\ BucketNamed(v.content.richness_line) = RichnessBucket
           /\ v.structured_data.business_value.reliability = ReliabilityBucket
           /\ BucketNamed(v.content.reliability_line) = ReliabilityBucket

\* C15: every bucket the renderer computes follows the strict thresholds
\* (>95 >85 >70 for the quality rating, >10000 >1000 for rows, >20 >10 for
\* columns, >90 >75 for reliability), and the bucket a narrative names is the
\* bucket in the structured data next to it.
C15_BucketsAgree ==
    artifact.done =>
        /\ \A i \in 1..Len(artifact.items) :
               IsSection(artifact.items[i][2]) => SectionAgrees(artifact.items[i][2])
        /\ \A k \in DOMAIN artifact.json_output :
               IsSection(artifact.json_output[k]) => SectionAgrees(artifact.json_output[k])

C15_Witness ==
    /\ artifact.done
    /\ analysis.total_rows = 10000
    /\ analysis.total_columns = 20
    /\ analysis.completeness.den > 0
    /\ 100 * analysis.completeness.num = 90 * analysis.completeness.den
    /\ \E k \in DOMAIN artifact.json_output :
           /\ IsSection(artifact.json_output[k])
           /\ artifact.json_output[k].structured_data.business_value.reliability = "Moderate"

\* C16: the artifact holds two distinct narrative sections, the data
\* overview and quality block and the capabilities and business value block,
\* each with a content and a structured_data, next to main_title,
\* summary_stats, data_type_separation, full_analysis, generation_timestamp
\* and processing_info.
C16_TwoSections ==
    artifact.done =>
        /\ {"main_title", "summary_stats", "data_type_separation", "full_analysis",
            "generation_timestamp", "processing_info"} \subseteq DOMAIN artifact.json_output
        /\ \E k1, k2 \in DOMAIN artifact.json_output :
               /\ k1 # k2
               /\ IsSection(artifact.json_output[k1])
               /\ "data_quality" \in DOMAIN artifact.json_output[k1].structured_data
               /\ IsSection(artifact.json_output[k2])
               /\ "business_value" \in DOMAIN artifact.json_output[k2].structured_data

\* C17: a non-finite number in the artifact is written as a string, not as a
\* number token.
C17_NonFiniteAsString ==
    (artifact.done /\ artifact.dumped) =>
        \A p \in DOMAIN artifact.written :
            ~IsNumberF(FloatsOf(artifact.json_output)[p]) => artifact.written[p].quoted

----------------------------------------------------------------------------
(* The coordinator that keeps sweeping *)

\* a step of the loop of instance w; the sleep between sweeps always returns
WorkerStep(w) ==
    \/ Boot(w)
    \/ StartSweep(w)
    \/ Examine(w)
    \/ Mark(w)
    \/ RunAnalyzer(w)
    \/ Save(w)
    \/ RunUvi(w)
    \/ Insights(w)
    \/ Describe(w)
    \/ Except(w)
    \/ Final(w)
    \/ MakeSamplePpt(w)
    \/ EndSweep(w)

SpecLive == Init /\ [][Next]_vars /\ \A w \in Workers1 : WF_vars(WorkerStep(w))

NoKill == \A w \in Workers2 : ~Kill(w)

Supported(j) == kind \in Coordinators /\ upload[j] \in InputFiles

Terminal(j) == status[j] \in {"completed", "failed"}

\* C18: when the coordinator keeps sweeping and is killed and restarted only
\* finitely often, every job whose upload directory holds a supported input
\* file eventually has the status "completed" or "failed".
C18_EventuallyTerminal ==
    (<>[][NoKill]_vars) => \A j \in Jobs : (Supported(j) ~> Terminal(j))

----------------------------------------------------------------------------
(* Datetime promotion of one text column that is longer than the sample *)

MaxCells == 11

LongColumns ==
    UNION {[dtype : {"object"}, cells : [1..n -> CellsOf("object")]] : n \in 0..MaxCells}

InitPromotion ==
    /\ IdleCoord
    /\ df \in {[nrows |-> Len(c.cells), cols |-> <<c>>] : c \in LongColumns}
    /\ out = [numerical |-> <<>>, categorical |-> <<>>, datetime |-> <<>>, done |-> FALSE]
    /\ analysis = NoAnalysis
    /\ artifact = NoArtifact
    /\ feat = NoFeat
    /\ top = NoTop

NextPromotion == Classify

SpecPromotion == InitPromotion /\ [][NextPromotion]_vars

\* the number of non-null cells among the first k cells
RECURSIVE NonNullUpTo(_, _)
NonNullUpTo(cells, k) ==
    IF k = 0 THEN 0
    ELSE NonNullUpTo(cells, k - 1) + (IF cells[k] # "null" THEN 1 ELSE 0)

\* cell k is one of the first ten non-null cells
Sampled(cells, k) == cells[k] # "null" /\ NonNullUpTo(cells, k) <= 10

InSeq(sq, x) == \E k \in 1..Len(sq) : sq[k] = x

\* C21: a text column is in the Datetime sequence exactly when it has a
\* non-null value and each of its first ten non-null values parses as a
\* date; otherwise it is in the Categorical sequence. Later values do not
\* matter.
C21_PromotionBySample ==
    out.done =>
        \A i \in 1..Len(df.cols) :
            df.cols[i].dtype = "object" =>
                LET cells == df.cols[i].cells
                    promote ==
                        /\ \E k \in 1..Len(cells) : cells[k] # "null"
                        /\ \A k \in 1..Len(cells) : Sampled(cells, k) => cells[k] = "date"
                IN  /\ InSeq(out.datetime, i) <=> promote
                    /\ InSeq(out.categorical, i) <=> ~promote

C21_Witness ==
    /\ out.done
    /\ Len(df.cols) = 1
    /\ NonNullUpTo(df.cols[1].cells, Len(df.cols[1].cells)) = 11
    /\ df.cols[1].cells[11] = "text"
    /\ out.datetime = <<1>>

----------------------------------------------------------------------------
(* Categorical scoring over every outcome of the pairwise test *)

MaxCat == 3

ChiOutcomesAll == ChiOutcomes \cup {[outcome |-> "Exception", strength |-> 0]}

CatColumn(name) ==
    [name |-> name, dtype |-> "object", constant |-> FALSE, nunique |-> 49, var |-> NaN]

AllPairs(n) == {p \in (1..n) \X (1..n) : p[1] < p[2]}

IsCatFeat(d) ==
    \E n \in 0..MaxCat :
        \E pair \in [AllPairs(n) -> ChiOutcomesAll] :
            d = [cols |-> [i \in 1..n |-> CatColumn(i)], pair |-> pair]

InitChi ==
    /\ IdleCoord
    /\ df = [nrows |-> 0, cols |-> <<>>]
    /\ out = [numerical |-> <<>>, categorical |-> <<>>, datetime |-> <<>>, done |-> FALSE]
    /\ analysis = NoAnalysis
    /\ artifact = NoArtifact
    /\ IsCatFeat(feat)
    /\ top = NoTop

SpecChi == InitChi /\ [][NextScorer]_vars

\* the strengths of the valid pairings of column c
ValidStrengths(c) ==
    {Tenths(feat.pair[p].strength) :
        p \in {q \in DOMAIN feat.pair :
                  (q[1] = c \/ q[2] = c) /\ feat.pair[q].outcome = "tested"}}

\* C22: a degenerate table or a failing test, whatever it raises, does not
\* abort the pass; each column's raw score is the largest strength among its
\* valid pairings, 0 without one.
C22_PairFailureContained ==
    (top.stage # "none" /\ Len(feat.cols) > 1) =>
        /\ top.stage \in {"scored", "ranked"}
        /\ \A k \in 1..Len(top.col_types.categorical) :
               LET c == top.col_types.categorical[k]
               IN  IF ValidStrengths(c) = {} THEN FEq(top.raw.categorical[k], F(0))
                   ELSE /\ top.raw.categorical[k] \in ValidStrengths(c)
                        /\ \A v \in ValidStrengths(c) : ~FLt(top.raw.categorical[k], v)

----------------------------------------------------------------------------
(* Properties of the job lifecycle within one coordinator instance *)

Processing == {j \in Jobs : status[j] = "processing"}

\* C23: with one coordinator instance at most one job's status.txt reads
\* "processing" at any moment.
C23_OneProcessing == kind \in Coordinators => Cardinality(Processing) <= 1

\* the positions at which a stage of the pipeline or an artifact write runs
Stages == {"run", "save", "insights", "describe"}

MarkerFirst ==
    kind \in Coordinators =>
        /\ \A w \in Workers1 :
              /\ (pc'[w] \in Stages /\ pc[w] \notin Stages) =>
                     /\ pc[w] = "mark"
                     /\ cur'[w] = cur[w]
                     /\ status'[cur[w]] = "processing"
              /\ (pc[w] \in Stages /\ pc'[w] # "boot") =>
                     /\ status[cur[w]] = "processing"
                     /\ cur'[w] = cur[w]
        /\ \A j \in Jobs :
              files'[j] # files[j] =>
                  \E w \in Workers1 : cur[w] = j /\ pc[w] \in Stages

\* C24: a pipeline stage or artifact write for a job runs only between the
\* write of that job's "processing" marker and the end of the same loop
\* body: the pipeline is entered only by the step that writes the marker,
\* every stage runs for the marked job, and only a stage writes an artifact.
C24_MarkerBeforePipeline == [][MarkerFirst]_vars

C24_Witness ==
    \E w \in Workers1 :
        /\ kind \in Coordinators
        /\ pc[w] = "final"
        /\ res[w] = "report"
        /\ Expected(kind) \subseteq files[cur[w]]
        /\ status[cur[w]] = "processing"

SupportedExts == {"csv", "xlsx", "xls"}

NoInputNoOutput ==
    kind \in Coordinators =>
        \A j \in Jobs :
            upload[j].ext \notin SupportedExts => (status[j] = "none" /\ files[j] = {})

SkipOrTakeUp ==
    \A w \in Workers1 : \A j \in Jobs :
        (Examines(w, j) /\ status[j] = "none" /\ files[j] = {}) =>
            IF upload[j].ext \notin SupportedExts
            THEN pc'[w] = "iter" /\ status' = status /\ files' = files
            ELSE pc'[w] = "mark" /\ cur'[w] = j

\* C25: a job directory without a .csv, .xlsx or .xls file never gets a
\* status marker or an artifact; the sweep that examines it does not start the
\* pipeline and writes nothing; an examined job that has such a file and no
\* outputs is taken up.
C25_NoInputSkipped == []NoInputNoOutput /\ [][SkipOrTakeUp]_vars

C25_Witness ==
    \E w \in Workers1 :
        /\ kind \in Coordinators
        /\ last[w] = "noinput"
        /\ upload[cur[w]] = OtherFile
        /\ status[cur[w]] = "none"
        /\ \E j \in Jobs : j # cur[w] /\ status[j] = "completed"

----------------------------------------------------------------------------
(* Minimum memberships of the type-classes *)

ColumnsWhere(Test(_)) == {i \in 1..Len(feat.cols) : Test(feat.cols[i])}

NumericColumns ==
    LET T(c) == c.dtype \in {"int64", "float64"} IN ColumnsWhere(T)

EligibleColumns ==
    LET T(c) == c.dtype \in {"object", "category", "bool"} /\ c.nunique < 50
    IN  ColumnsWhere(T)

DatetimeColumns ==
    LET T(c) == c.dtype = "datetime64" IN ColumnsWhere(T)

TypesIn(sq) == {sq[i].type : i \in 1..Len(sq)}

\* a class without a scored member has no entry anywhere
Absent(type, toplist) ==
    /\ type \notin TypesIn(top.feature_scores)
    /\ type \notin TypesIn(top.overall_rank)
    /\ toplist = <<>>

\* C26: fewer than two numeric columns give no numeric score, fewer than two
\* eligible categorical columns give no categorical score, a single datetime
\* column scores 0.0, and a class without scored members has no entry in its
\* top list or in the overall rank.
C26_MinimumMemberships ==
    top.stage = "ranked" =>
        /\ Cardinality(NumericColumns) < 2 =>
               Absent("numerical", top.top_numerical_features)
        /\ Cardinality(EligibleColumns) < 2 =>
               Absent("categorical", top.top_categorical_features)
        /\ Cardinality(DatetimeColumns) = 0 =>
               Absent("datetime", top.top_datetime_features)
        /\ Cardinality(DatetimeColumns) = 1 =>
               /\ Len(top.top_datetime_features) = 1
               /\ FEq(top.top_datetime_features[1].score, F(0))
               /\ \E k \in 1..Len(top.overall_rank) :
                      /\ top.overall_rank[k].type = "datetime"
                      /\ FEq(top.overall_rank[k].score, F(0))

C26_Witness ==
    /\ top.stage = "ranked"
    /\ Cardinality(NumericColumns) = 1
    /\ Cardinality(EligibleColumns) = 1
    /\ Cardinality(DatetimeColumns) = 1
    /\ Len(top.overall_rank) = 1
    /\ top.overall_rank[1].type = "datetime"
    /\ \E i \in DatetimeColumns : IsNumberF(feat.cols[i].var)

----------------------------------------------------------------------------
(* Key applications: the renderer on reports whose names hold keywords *)

MaxNamed == 2

FileNames == {"input", "Sales", "CLIENT", "HR"}

ColumnNames == {"Sales", "price", "CLIENT", "user", "staff", "HR", "col"}

NamedReports ==
    {[done |-> TRUE, total_rows |-> 1000, total_columns |-> Len(cs),
      total_missing |-> 0,
      basic_info |-> [file_name |-> f, columns |-> cs],
      data_types |-> [numerical_columns |-> <<>>, categorical_columns |-> <<>>,
                      datetime_columns |-> <<>>],
      completeness |-> completeness_score(1000, Len(cs), 0)] :
        f \in FileNames, cs \in UNION {[1..n -> ColumnNames] : n \in 0..MaxNamed}}

InitApplications ==
    /\ IdleCoord
    /\ df = [nrows |-> 0, cols |-> <<>>]
    /\ out = [numerical |-> <<>>, categorical |-> <<>>, datetime |-> <<>>, done |-> FALSE]
    /\ analysis \in NamedReports
    /\ artifact = NoArtifact
    /\ feat = NoFeat
    /\ top = NoTop

SpecApplications == InitApplications /\ [][NextRender]_vars

\* the names of the report, file name included
ReportNames ==
    {analysis.basic_info.file_name} \cup
    {analysis.basic_info.columns[i] : i \in 1..Len(analysis.basic_info.columns)}

\* the spellings under which the words of each group occur in names
SalesNames == {"Sales", "price"}

CustomerNames == {"CLIENT", "user"}

WorkforceNames == {"staff", "HR"}

SuggestedGroup ==
    IF ReportNames \cap SalesNames # {} THEN "sales"
    ELSE IF ReportNames \cap CustomerNames # {} THEN "customer"
    ELSE IF ReportNames \cap WorkforceNames # {} THEN "workforce"
    ELSE "generic"

LinesOf(group) ==
    CASE group = "sales" ->
            <<"Sales performance analysis", "Revenue optimization studies",
              "Pricing strategy development">>
      [] group = "customer" ->
            <<"Customer behavior analysis", "Market segmentation studies",
              "Customer lifetime value modeling">>
      [] group = "workforce" ->
            <<"Workforce analytics", "Performance management insights",
              "HR optimization strategies">>
      [] OTHER ->
            <<"Exploratory data analysis", "Pattern recognition studies",
              "Statistical modeling projects", "Business intelligence reporting">>

----------------------------------------------------------------------------
(* Insight step: uni.generate_insights and its column processors *)

MaxInsightCols == 2

\* what the processors read of a column handed to them: the list it was
\* passed in, the figures that select the chart, and for a datetime column
\* how many values remain after pd.to_datetime(errors="coerce") and dropna
InsightColumnsOf(name) ==
    [column_name : {name}, list : {"numerical"}, unique_values : {5, 30},
     skewed : BOOLEAN, dominant : {FALSE}, valid : {2}, time_span_days : {0}]
    \cup [column_name : {name}, list : {"categorical"}, unique_values : {3, 12},
          skewed : {FALSE}, dominant : BOOLEAN, valid : {2}, time_span_days : {0}]
    \cup [column_name : {name}, list : {"datetime"}, unique_values : {0},
          skewed : {FALSE}, dominant : {FALSE}, valid : {2},
          time_span_days : {10, 400}]
    \cup [column_name : {name}, list : {"datetime"}, unique_values : {0},
          skewed : {FALSE}, dominant : {FALSE}, valid : {0}, time_span_days : {0}]

RECURSIVE InsightColumnSeqs(_)
InsightColumnSeqs(n) ==
    IF n = 0 THEN {<<>>}
    ELSE {Append(sq, c) : sq \in InsightColumnSeqs(n - 1), c \in InsightColumnsOf(n)}

\* os.path.join(plots_dir, f"{col}.png")
plot_path(col) == <<"/storage/outputs", "plots", col, ".png">>

process_numerical(c) ==
    [column_name |-> c.column_name,
     unique_values |-> c.unique_values,
     chart |-> IF c.unique_values > 20 /\ ~c.skewed THEN "Histogram"
               ELSE IF c.unique_values > 20 /\ c.skewed THEN "Boxplot"
               ELSE "Bar Chart",
     plot_path |-> plot_path(c.column_name)]

process_categorical(c) ==
    [column_name |-> c.column_name,
     unique_values |-> c.unique_values,
     chart |-> IF c.unique_values <= 5 /\ ~c.dominant THEN "Pie Chart"
               ELSE "Bar Chart",
     plot_path |-> plot_path(c.column_name)]

process_datetime(c) ==
    IF c.valid = 0
    THEN [column_name |-> c.column_name, error |-> "No valid dates"]
    ELSE [column_name |-> c.column_name,
          time_span_days |-> c.time_span_days,
          chart |-> IF c.time_span_days > 365 THEN "Yearly Trend" ELSE "Daily Trend",
          plot_path |-> plot_path(c.column_name)]

InNumList(c) == c.list = "numerical"

InCatList(c) == c.list = "categorical"

InDatetimeList(c) == c.list = "datetime"

Charted(c) == c.list # "datetime" \/ c.valid > 0

generate_insights(cols) ==
    LET num_cols == SelectSeq(cols, InNumList)
        cat_cols == SelectSeq(cols, InCatList)
        dt_cols == SelectSeq(cols, InDatetimeList)
    IN  [done |-> TRUE, raised |-> FALSE,
         insights |->
            [numerical |-> [k \in 1..Len(num_cols) |-> process_numerical(num_cols[k])],
             categorical |-> [k \in 1..Len(cat_cols) |-> process_categorical(cat_cols[k])],
             datetime |-> [k \in 1..Len(dt_cols) |-> process_datetime(dt_cols[k])]]]

InitInsights ==
    /\ IdleCoord
    /\ \E n \in 0..MaxInsightCols :
           df \in {[nrows |-> 0, cols |-> cols] : cols \in InsightColumnSeqs(n)}
    /\ out = [numerical |-> <<>>, categorical |-> <<>>, datetime |-> <<>>, done |-> FALSE]
    /\ analysis = NoAnalysis
    /\ artifact = NoArtifact
    /\ feat = NoFeat
    /\ top = NoTop

\* the charting library either draws every chart or raises on one of them;
\* when it raises, the exception leaves generate_insights and insights.json
\* is not written
GenerateInsights ==
    /\ ~artifact.done
    /\ \E charts_ok \in BOOLEAN :
          artifact' = IF charts_ok \/ SelectSeq(df.cols, Charted) = <<>>
                      THEN generate_insights(df.cols)
                      ELSE [done |-> TRUE, raised |-> TRUE]
    /\ UNCHANGED <<kind, upload, status, files, pc, cur, todo, res, last, df, out,
                   analysis, feat, top>>

NextInsights == GenerateInsights

SpecInsights == InitInsights /\ [][NextInsights]_vars

HasPlotPath(stats) == "plot_path" \in DOMAIN stats /\ stats.plot_path # <<>>

AllHavePlotPath(sq) == \A k \in 1..Len(sq) : HasPlotPath(sq[k])

\* C28: every per-column stats object of the insights JSON, under numerical,
\* categorical or datetime, carries a plot_path, also the one of a datetime
\* column without any parseable date.
C28_EveryStatsHasPlotPath ==
    artifact.done /\ ~artifact.raised =>
        /\ AllHavePlotPath(artifact.insights.numerical)
        /\ AllHavePlotPath(artifact.insights.categorical)
        /\ AllHavePlotPath(artifact.insights.datetime)

----------------------------------------------------------------------------
(* The input file of a job *)

\* C29: the file the pipeline reads is the input file the coordinator found
\* in the job's upload directory, whatever its supported extension: once the
\* coordinator has finished with a job whose input is well formed, csv, xlsx
\* or xls alike, the job was analysed from that file and reads "completed".
C29_ReadsDiscoveredInput ==
    \A w \in Workers1 :
        (/\ kind \in {"uvi", "analyzer"}
         /\ last[w] = "finished"
         /\ upload[cur[w]] \in InputFiles
         /\ upload[cur[w]].content = "good") =>
            /\ ReadPath(kind, upload[cur[w]]) = upload[cur[w]]
            /\ status[cur[w]] = "completed"

----------------------------------------------------------------------------
(* Type Classifier and Feature Significance Scorer on one frame: run_uvi
   hands the same input file to process_csv_file and to generate *)

MaxAgreeCols == 2

MaxAgreeRows == 2

\* the dtypes pd.read_csv gives a column
CsvDtypes == {"int64", "float64", "bool", "object"}

CsvColumnsOf(n) ==
    UNION {[dtype : {dt}, cells : [1..n -> CellsOf(dt)]] : dt \in CsvDtypes}

CsvFrames ==
    UNION {[nrows : {n}, cols : UNION {[1..c -> CsvColumnsOf(n)] : c \in 0..MaxAgreeCols}] :
              n \in 0..MaxAgreeRows}

\* df[c].nunique(): at most one distinct value per non-null cell
NUniqueOf(col) == Len(SelectSeq(col.cells, NotNull))

\* what the scorer reads of column i of the frame
ScorerViewsOf(d, i) ==
    IF IsNumber(d, i)
    THEN [name : {i}, dtype : {d.cols[i].dtype},
          constant : IF d.nrows < 2 THEN {TRUE} ELSE BOOLEAN,
          nunique : {0}, var : {NaN}]
    ELSE [name : {i}, dtype : {d.cols[i].dtype}, constant : {FALSE},
          nunique : {NUniqueOf(d.cols[i])}, var : {NaN}]

RECURSIVE ScorerViews(_, _)
ScorerViews(d, n) ==
    IF n = 0 THEN {<<>>}
    ELSE {Append(sq, c) : sq \in ScorerViews(d, n - 1), c \in ScorerViewsOf(d, n)}

\* two categorical columns have a contingency table of at least two rows
\* and two columns only if each holds two distinct values
FrameAllows(d, cols, pair) ==
    \A p \in DOMAIN pair :
        IsCategoricalDtype(ColNamed(cols, p[1])) =>
            \/ pair[p].outcome = "degenerate"
            \/ ColNamed(cols, p[1]).nunique >= 2 /\ ColNamed(cols, p[2]).nunique >= 2

InitAgree ==
    /\ IdleCoord
    /\ df \in CsvFrames
    /\ out = [numerical |-> <<>>, categorical |-> <<>>, datetime |-> <<>>, done |-> FALSE]
    /\ analysis = NoAnalysis
    /\ artifact = NoArtifact
    /\ \E cols \in ScorerViews(df, Len(df.cols)) :
           \E pair \in PairTables(cols, SameClassPairs(cols)) :
               /\ FrameAllows(df, cols, pair)
               /\ feat = [cols |-> cols, pair |-> pair]
    /\ top = NoTop

NextAgree ==
    \/ Classify
    \/ FeatureAnalysis
    \/ TopFeatures

SpecAgree == InitAgree /\ [][NextAgree]_vars

\* the class separate_data_types gave column i, "none" when it gave none
ClassifierClass(i) ==
    IF InSeq(out.numerical, i) THEN "numerical"
    ELSE IF InSeq(out.categorical, i) THEN "categorical"
    ELSE IF InSeq(out.datetime, i) THEN "datetime"
    ELSE "none"

OfClassifierClass(toplist, type) ==
    \A k \in 1..Len(toplist) : ClassifierClass(toplist[k].feature) = type

\* C30: scorer and classifier agree on the type-classes: every scored column
\* is scored under the class the classifier gave it, and each per-class top
\* list holds only columns of that classifier class.
C30_ScorerAgreesWithClassifier ==
    out.done /\ top.stage = "ranked" =>
        /\ \A k \in 1..Len(top.feature_scores) :
               top.feature_scores[k].type = ClassifierClass(top.feature_scores[k].feature)
        /\ OfClassifierClass(top.top_numerical_features, "numerical")
        /\ OfClassifierClass(top.top_categorical_features, "categorical")
        /\ OfClassifierClass(top.top_datetime_features, "datetime")

====
